---------------------------- MODULE Spec2Model ----------------------------
(***************************************************************************)
(* A model of ios-extract.py: the scan loop over candidate backup          *)
(* directories, the IOSBackup / IOSBackupFile accessors, the scratch-copy  *)
(* cache, and the extraction pipelines backup_bgstats, backup_contacts,    *)
(* backup_messages and backup_photos with the process-wide                 *)
(* CONTACTS_LOOKUP table.                                                  *)
(*                                                                         *)
(* Text that the code inspects character by character (contact strings,    *)
(* file ids) is a sequence of one-character strings; text that the code    *)
(* only compares or concatenates (paths, names) is a TLA+ string.          *)
(***************************************************************************)
EXTENDS Integers, Sequences, FiniteSets, TLC

(***************************************************************************)
(* Python values.                                                          *)
(***************************************************************************)
\* Python's None where a string is expected (a NULL column, a missing key).
None == "<None>"

\* Python's None where a character sequence is expected.
NoneSeq == <<None>>

\* bool(s) of an optional string: None and "" are false.
Truthy(s) == s # None /\ s # ""

\* str.join
RECURSIVE Join(_, _)
Join(parts, sep) ==
    IF parts = <<>> THEN ""
    ELSE IF Len(parts) = 1 THEN parts[1]
    ELSE parts[1] \o sep \o Join(Tail(parts), sep)

\* The text of a character sequence.
Str(cs) == Join(cs, "")

\* The elements of a sequence.
Range(s) == {s[i] : i \in 1..Len(s)}

\* The elements of s that satisfy Test, in order.
RECURSIVE SelectChars(_, _)
SelectChars(s, keep) ==
    IF s = <<>> THEN <<>>
    ELSE IF Head(s) \in keep THEN <<Head(s)>> \o SelectChars(Tail(s), keep)
    ELSE SelectChars(Tail(s), keep)

(***************************************************************************)
(* parse_phone_number: phonenumbers.parse(input, "US") rendered as         *)
(* "+<country code><national number>", or None when the library raises     *)
(* NumberParseException.  The library's steps are followed for input made  *)
(* of digits, "+", letters other than extension markers, and punctuation;  *)
(* its country-code table is cut down to calling code 1 (region US), the   *)
(* only one the bounded inputs below use, and extensions are not modelled. *)
(***************************************************************************)
Digits == {"0", "1", "2", "3", "4", "5", "6", "7", "8", "9"}

\* The telephone keypad (ALPHA_MAPPINGS of the library).
Keypad ==
    [c \in {"a", "b", "c"} |-> "2"] @@ [c \in {"d", "e", "f"} |-> "3"] @@
    [c \in {"g", "h", "i"} |-> "4"] @@ [c \in {"j", "k", "l"} |-> "5"] @@
    [c \in {"m", "n", "o"} |-> "6"] @@ [c \in {"p", "q", "r", "s"} |-> "7"] @@
    [c \in {"t", "u", "v"} |-> "8"] @@ [c \in {"w", "y", "z"} |-> "9"]

Letters == DOMAIN Keypad

\* VALID_PUNCTUATION and the star sign, without the extension marker "x".
Punctuation == {"-", " ", "(", ")", ".", "/", "[", "]", "~", "*"}

\* _extract_possible_number: from the first digit or plus sign on ...
RECURSIVE DropToStart(_)
DropToStart(s) ==
    IF s = <<>> THEN <<>>
    ELSE IF Head(s) \in Digits \cup {"+"} THEN s
    ELSE DropToStart(Tail(s))

\* ... without the trailing characters that are no digit, letter or "#".
RECURSIVE DropUnwantedEnd(_)
DropUnwantedEnd(s) ==
    IF s = <<>> THEN <<>>
    ELSE IF s[Len(s)] \in Digits \cup Letters \cup {"#"} THEN s
    ELSE DropUnwantedEnd(SubSeq(s, 1, Len(s) - 1))

ExtractPossibleNumber(s) == DropUnwantedEnd(DropToStart(s))

\* The leading plus signs removed.
RECURSIVE DropPlus(_)
DropPlus(s) ==
    IF s # <<>> /\ Head(s) = "+" THEN DropPlus(Tail(s)) ELSE s

\* The position of the n-th digit of s, 0 when s has fewer.
RECURSIVE NthDigit(_, _, _)
NthDigit(s, n, from) ==
    IF from > Len(s) THEN 0
    ELSE IF s[from] \in Digits
         THEN IF n = 1 THEN from ELSE NthDigit(s, n - 1, from + 1)
         ELSE NthDigit(s, n, from + 1)

\* _is_viable_phone_number: two digits, or plus signs, then three digits
\* separated by punctuation only, then digits, letters and punctuation.
IsViable(s) ==
    LET r == DropPlus(s)
        third == NthDigit(r, 3, 1)
    IN  /\ Len(s) >= 2
        /\ \/ (Len(s) = 2 /\ Range(s) \subseteq Digits)
           \/ /\ third > 0
              /\ Range(r) \subseteq Digits \cup Letters \cup Punctuation
              /\ Range(SubSeq(r, 1, third)) \subseteq Digits \cup Punctuation

\* _normalize: with three letters or more the letters become keypad digits;
\* everything that is no digit is dropped.
RECURSIVE NormalizeAlpha(_)
NormalizeAlpha(s) ==
    IF s = <<>> THEN <<>>
    ELSE IF Head(s) \in Digits THEN <<Head(s)>> \o NormalizeAlpha(Tail(s))
    ELSE IF Head(s) \in Letters THEN <<Keypad[Head(s)]>> \o NormalizeAlpha(Tail(s))
    ELSE NormalizeAlpha(Tail(s))

Normalize(s) ==
    IF Len(SelectChars(s, Letters)) >= 3 THEN NormalizeAlpha(s)
    ELSE SelectChars(s, Digits)

\* The national number pattern of region US: [2-9]\d{9}|3\d{6}.
GeneralPattern(n) ==
    \/ (Len(n) = 10 /\ n[1] \in Digits \ {"0", "1"})
    \/ (Len(n) = 7 /\ n[1] = "3")

\* _maybe_strip_national_prefix_carrier_code for region US (prefix "1").
StripNationalPrefix(n) ==
    IF n # <<>> /\ Head(n) = "1"
    THEN IF GeneralPattern(n) /\ ~GeneralPattern(Tail(n)) THEN n ELSE Tail(n)
    ELSE n

\* int(): the leading zeros dropped.
RECURSIVE DropLeadingZeros(_)
DropLeadingZeros(n) ==
    IF Len(n) > 1 /\ Head(n) = "0" THEN DropLeadingZeros(Tail(n)) ELSE n

\* _maybe_extract_country_code for a number without plus sign or
\* international prefix: [country code, national number], country code 0
\* when the number carries none.
DefaultCountryCode(full) ==
    IF full # <<>> /\ Head(full) = "1"
    THEN LET potential == StripNationalPrefix(Tail(full))
         IN  IF \/ (~GeneralPattern(full) /\ GeneralPattern(potential))
                \/ Len(full) > 10
             THEN <<1, potential>>
             ELSE <<0, <<>>>>
    ELSE <<0, <<>>>>

\* _extract_country_code over the calling codes the model knows: <<0, ..>>
\* when the digits start with none.
ExtractCountryCode(full) ==
    IF full # <<>> /\ Head(full) = "1" THEN <<1, Tail(full)>> ELSE <<0, <<>>>>

\* _maybe_extract_country_code for a number that starts with a plus sign,
\* full its digits: <<ok, country code, national number>>.  When the digits
\* start with no calling code, parse() tries again without the plus sign.
WithPlus(full, cc, again) ==
    IF Len(full) <= 2 THEN <<FALSE, 0, <<>>>>
    ELSE IF cc[1] # 0 THEN <<TRUE, cc[1], cc[2]>>
    ELSE <<again[1] # 0, again[1], again[2]>>

\* The same for a number without plus sign, full its digits: after the
\* international prefix 011 a calling code must follow.
WithoutPlus(full) ==
    IF /\ Len(full) >= 3
       /\ SubSeq(full, 1, 3) = <<"0", "1", "1">>
       /\ ~(Len(full) >= 4 /\ full[4] = "0")
    THEN IF Len(full) <= 5 THEN <<FALSE, 0, <<>>>>
         ELSE IF full[4] = "1" THEN <<TRUE, 1, SubSeq(full, 5, Len(full))>>
         ELSE <<FALSE, 0, <<>>>>
    ELSE <<TRUE>> \o DefaultCountryCode(full)

MaybeExtractCountryCode(e, full) ==
    IF e # <<>> /\ Head(e) = "+"
    THEN WithPlus(full, ExtractCountryCode(full), DefaultCountryCode(full))
    ELSE WithoutPlus(full)

\* The national number (a sequence of digits) as parse() returns it: None
\* when it is too short or too long, else "+1" and the number read as an
\* integer.
Canonical(kept) ==
    IF Len(kept) < 2 \/ Len(kept) > 17 THEN NoneSeq
    ELSE <<"+", "1">> \o DropLeadingZeros(kept)

\* The national prefix is dropped when what is left is not too short.
WithoutNationalPrefix(national, potential) ==
    IF Len(national) < 2 THEN NoneSeq
    ELSE Canonical(IF Len(potential) >= 10 THEN potential ELSE national)

\* x is what _maybe_extract_country_code returned, digits the normalised
\* input.
ParseNational(x, digits) ==
    IF ~x[1] THEN NoneSeq
    ELSE IF x[2] # 0 THEN WithoutNationalPrefix(x[3], StripNationalPrefix(x[3]))
    ELSE WithoutNationalPrefix(digits, StripNationalPrefix(digits))

\* e is the possible number extracted from the input.
ParseExtracted(e, viable, digits) ==
    IF ~viable THEN NoneSeq
    ELSE ParseNational(MaybeExtractCountryCode(e, digits), digits)

parse_phone_number(input) ==
    IF input = NoneSeq \/ Len(input) > 250 THEN NoneSeq
    ELSE ParseExtracted(ExtractPossibleNumber(input),
                        IsViable(ExtractPossibleNumber(input)),
                        Normalize(DropPlus(ExtractPossibleNumber(input))))

(***************************************************************************)
(* Python dicts are functions; a list of rows is a sequence of records.    *)
(***************************************************************************)
EmptyDict == <<>>

\* d[k] = v
DictSet(d, k, v) == (k :> v) @@ d

\* The index of the row a dict built with by="id" holds for id (the last
\* such row), 0 when the dict has no such key.
IndexOf(rows, id) ==
    LET hits == {i \in 1..Len(rows) : rows[i].id = id}
    IN  IF hits = {} THEN 0 ELSE CHOOSE i \in hits : \A j \in hits : j <= i

\* The concatenation of a sequence of sequences.
RECURSIVE Concat(_)
Concat(ss) == IF ss = <<>> THEN <<>> ELSE Head(ss) \o Concat(Tail(ss))

(***************************************************************************)
(* backup_contacts, after the address book is open.  An address book is    *)
(* [people |-> rows of ABPerson, values |-> rows of ABMultiValue].         *)
(***************************************************************************)
\* The display name of a person row (lines 416-433).
display_name(person) ==
    LET first == IF Truthy(person.first_name) THEN <<person.first_name>> ELSE <<>>
        nick == IF Truthy(person.nickname)
                THEN <<"\"" \o person.nickname \o "\"">> ELSE <<>>
        last == IF Truthy(person.last_name) THEN <<person.last_name>> ELSE <<>>
        names == first \o nick \o last
        org == IF Truthy(person.organization)
               THEN IF names # <<>>
                    THEN <<"(" \o person.organization \o ")">>
                    ELSE <<person.organization>>
               ELSE <<>>
    IN  Join(names \o org, " ")

\* The people dict after the first loop: each person with its display name
\* and no "contacts" key yet (contacts = <<>>).  A key whose value is None
\* has been deleted; reading it raises KeyError.
LoadPeople(rows) ==
    [i \in 1..Len(rows) |->
        [id |-> rows[i].id, uuid |-> rows[i].uuid,
         display_name |-> display_name(rows[i]), contacts |-> <<>>]]

\* The kind and the stored form of a contact value (lines 450-458), phone
\* being what parse_phone_number returned for it.
ClassifyParsed(contact, phone) ==
    IF "@" \in Range(contact) THEN [type |-> "email", contact |-> contact]
    ELSE IF contact # <<>> /\ Range(contact) \subseteq Digits /\ Len(contact) <= 6
         THEN [type |-> "shortcode", contact |-> contact]
    ELSE IF phone # NoneSeq THEN [type |-> "phone", contact |-> phone]
    ELSE [type |-> "unknown", contact |-> contact]

Classify(contact) == ClassifyParsed(contact, parse_phone_number(contact))

\* person.setdefault("contacts", {}).setdefault(type, []).append(contact):
\* the kinds in the order of their first value.
AddContact(contacts, c) ==
    LET at == {i \in 1..Len(contacts) : contacts[i].type = c.type}
    IN  IF at = {} THEN Append(contacts, [type |-> c.type, items |-> <<c.contact>>])
        ELSE LET i == CHOOSE j \in at : TRUE
             IN  [contacts EXCEPT ![i].items = Append(@, c.contact)]

\* The loop over ABMultiValue (lines 443-462): [exc, people].
RECURSIVE LoadValues(_, _)
LoadValues(people, values) ==
    IF values = <<>> THEN [exc |-> "", people |-> people]
    ELSE LET row == Head(values)
             i == IndexOf(people, row.person_id)
         IN  IF row.value = NoneSeq \/ row.value = <<>>
             THEN LoadValues(people, Tail(values))
             ELSE IF i = 0 THEN [exc |-> "KeyError", people |-> people]
             ELSE LoadValues(
                     [people EXCEPT ![i].contacts = AddContact(@, Classify(row.value))],
                     Tail(values))

\* The innermost loop (lines 468-469) for one person: [exc, lookup].
RECURSIVE RecordContacts(_, _, _)
RecordContacts(lookup, person, contacts) ==
    IF contacts = <<>> THEN [exc |-> "", lookup |-> lookup]
    ELSE IF person.uuid = None THEN [exc |-> "KeyError", lookup |-> lookup]
    ELSE RecordContacts(
            DictSet(lookup, Head(contacts), <<person.uuid, person.display_name>>),
            person, Tail(contacts))

\* person["contacts"].values(), one list after the other.
ContactsOf(person) ==
    Concat([i \in 1..Len(person.contacts) |-> person.contacts[i].items])

\* The loop that fills CONTACTS_LOOKUP (lines 466-469): [exc, lookup].  A
\* person without the "contacts" key raises KeyError; what earlier people
\* recorded stays in the table.
RECURSIVE RecordPeople(_, _)
RECURSIVE RecordNext(_, _)
RecordPeople(lookup, people) ==
    IF people = <<>> THEN [exc |-> "", lookup |-> lookup]
    ELSE IF Head(people).contacts = <<>>
    THEN [exc |-> "KeyError", lookup |-> lookup]
    ELSE RecordNext(RecordContacts(lookup, Head(people), ContactsOf(Head(people))),
                    Tail(people))

\* r is what the inner loops returned for one person.
RecordNext(r, people) ==
    IF r.exc # "" THEN r ELSE RecordPeople(r.lookup, people)

\* Lines 464-469, loaded being the outcome of the loop over ABMultiValue
\* and recorded that of the loop over the people.
ContactsRecorded(loaded, recorded) ==
    [exc |-> recorded.exc, lookup |-> recorded.lookup,
     files |-> ("messages/contacts.json" :> loaded.people)]

ContactsLoaded(loaded, lookup) ==
    IF loaded.exc # ""
    THEN [exc |-> loaded.exc, lookup |-> lookup, files |-> EmptyDict]
    ELSE ContactsRecorded(loaded, RecordPeople(lookup, loaded.people))

\* Lines 398-469: [exc, lookup, files], files the JSON files written.
ContactsBody(ab, lookup) ==
    ContactsLoaded(LoadValues(LoadPeople(ab.people), ab.values), lookup)

(***************************************************************************)
(* backup_messages, after sms.db is open and CONTACTS_LOOKUP is known to   *)
(* be non-empty.  A messaging database is [chats, handles,                 *)
(* chat_handle_join, messages, chat_message_join, attachments,             *)
(* message_attachment_join], each a sequence of rows.  The dicts built     *)
(* with by="id" hold one object per row; the lists under a chat or a       *)
(* message hold references to these objects, so an object is read when a   *)
(* file is written, not when the reference was appended.                   *)
(***************************************************************************)
\* The key a handle or a message sender is looked up under (lines 492-494
\* and 522-524), phone being what parse_phone_number returned.
KeyOf(contact, phone) == IF phone # NoneSeq THEN phone ELSE contact

LookupKey(contact) == KeyOf(contact, parse_phone_number(contact))

\* A handle object, annotated when its key is in the table (lines 496-501).
AnnotateHandle(handle, key, lookup) ==
    IF key \in DOMAIN lookup
    THEN [handle EXCEPT !.uuid = lookup[key][1], !.name = lookup[key][2]]
    ELSE handle

\* The handle objects as the query returns them: no "uuid", no "name".
LoadHandles(rows) ==
    [i \in 1..Len(rows) |->
        [id |-> rows[i].id, contact |-> rows[i].contact,
         uuid |-> None, name |-> None]]

\* The loop over chat_handle_join (lines 489-503): [exc, handles, members],
\* members[c] the handles appended under chat number c, by number.
RECURSIVE JoinHandles(_, _, _, _, _)
RECURSIVE JoinHandle(_, _, _, _, _, _, _)
JoinHandles(rows, chats, handles, members, lookup) ==
    IF rows = <<>> THEN [exc |-> "", handles |-> handles, members |-> members]
    ELSE JoinHandle(Tail(rows), chats, handles, members, lookup,
                    IndexOf(handles, Head(rows).handle_id),
                    IndexOf(chats, Head(rows).chat_id))

\* One turn of it: h the number of the row's handle, c that of its chat.
JoinHandle(rows, chats, handles, members, lookup, h, c) ==
    IF h = 0 THEN [exc |-> "KeyError", handles |-> handles, members |-> members]
    ELSE IF c = 0
    THEN [exc |-> "KeyError", members |-> members,
          handles |-> [handles EXCEPT
                          ![h] = AnnotateHandle(@, LookupKey(@.contact), lookup)]]
    ELSE JoinHandles(rows, chats,
                     [handles EXCEPT
                         ![h] = AnnotateHandle(@, LookupKey(@.contact), lookup)],
                     [members EXCEPT ![c] = Append(@, h)], lookup)

\* One turn of the loop over the messages (lines 516-531), h the number of
\* the handle the message names: a message whose handle_id is no key of
\* handles is left as it is.
AnnotateMessage(message, h, key, lookup) ==
    IF h = 0 THEN message
    ELSE IF key \in DOMAIN lookup
    THEN [message EXCEPT !.sender_uuid = lookup[key][1],
                         !.sender_name = lookup[key][2]]
    ELSE message

\* The key of handle number h, for h = 0 as well.
HandleKey(handles, h) ==
    IF h = 0 THEN NoneSeq ELSE LookupKey(handles[h].contact)

\* The message objects after the loop of lines 516-531.
LoadMessages(rows, handles, lookup) ==
    [i \in 1..Len(rows) |->
        AnnotateMessage(
            [id |-> rows[i].id, handle_id |-> rows[i].handle_id,
             sender_uuid |-> None, sender_name |-> None],
            IndexOf(handles, rows[i].handle_id),
            HandleKey(handles, IndexOf(handles, rows[i].handle_id)),
            lookup)]

\* The loop over chat_message_join (lines 533-536): [exc, placed],
\* placed[c] the messages appended under chat number c, by number.
RECURSIVE JoinMessages(_, _, _, _)
JoinMessages(rows, chats, messages, placed) ==
    IF rows = <<>> THEN [exc |-> "", placed |-> placed]
    ELSE LET c == IndexOf(chats, Head(rows).chat_id)
             m == IndexOf(messages, Head(rows).message_id)
         IN  IF c = 0 \/ m = 0 THEN [exc |-> "KeyError", placed |-> placed]
             ELSE JoinMessages(Tail(rows), chats, messages,
                               [placed EXCEPT ![c] = Append(@, m)])

\* The loop over message_attachment_join (lines 547-550): [exc, attached],
\* attached[m] the attachment rows appended to message number m.
RECURSIVE JoinAttachments(_, _, _, _)
JoinAttachments(rows, messages, attachments, attached) ==
    IF rows = <<>> THEN [exc |-> "", attached |-> attached]
    ELSE LET m == IndexOf(messages, Head(rows).message_id)
             a == IndexOf(attachments, Head(rows).attachment_id)
         IN  IF m = 0 \/ a = 0 THEN [exc |-> "KeyError", attached |-> attached]
             ELSE JoinAttachments(Tail(rows), messages, attachments,
                                  [attached EXCEPT ![m] = Append(@, attachments[a])])

\* Mutant: the chat holds the message as it was when it was appended, before
\* the attachments were joined.
MessageJson_snapshot(message, attachments) ==
    [id |-> message.id, handle_id |-> message.handle_id,
     sender_uuid |-> message.sender_uuid, sender_name |-> message.sender_name,
     attachments |-> <<>>]

\* A message object as json.dump writes it, attachments being the list
\* under its "attachments" key at that moment.
MessageJson(message, attachments) ==
    [id |-> message.id, handle_id |-> message.handle_id,
     sender_uuid |-> message.sender_uuid, sender_name |-> message.sender_name,
     attachments |-> attachments]

\* Mutant: a message whose handle_id is no key of handles is left out.
ChatsJson_drop(chats, handles, members, messages, placed, attached) ==
    [c \in 1..Len(chats) |->
        [id |-> chats[c].id, guid |-> chats[c].guid,
         members |-> [i \in 1..Len(members[c]) |-> handles[members[c][i]]],
         messages |->
            LET kept == SelectSeq(placed[c],
                                  LAMBDA m : IndexOf(handles, messages[m].handle_id) # 0)
            IN  [i \in 1..Len(kept) |->
                    MessageJson(messages[kept[i]], attached[kept[i]])]]]

\* to_json(list(chats.values()), ...): every chat with the objects its
\* "members" and "messages" lists refer to, as they are now.
ChatsJson(chats, handles, members, messages, placed, attached) ==
    [c \in 1..Len(chats) |->
        [id |-> chats[c].id, guid |-> chats[c].guid,
         members |-> [i \in 1..Len(members[c]) |-> handles[members[c][i]]],
         messages |-> [i \in 1..Len(placed[c]) |->
                          MessageJson(messages[placed[c][i]],
                                      attached[placed[c][i]])]]]

\* The per-chat files of lines 554-558: one for every chat that has the
\* "messages" key.
MessageDataFiles(full) ==
    LET with == {c \in 1..Len(full) : full[c].messages # <<>>}
        name(c) == "messages/message-data/" \o ToString(full[c].id) \o ".json"
    IN  [f \in {name(c) : c \in with} |->
            LET c == CHOOSE k \in with :
                        /\ name(k) = f
                        /\ \A j \in with : name(j) = f => j <= k
            IN  full[c].messages]

\* No list under any of the n chats or messages yet.
NoLists(n) == [i \in 1..n |-> <<>>]

\* Lines 552-558, full being what chats-full.json receives.
MessagesWritten(lookup, chatsFile, full) ==
    [exc |-> "", lookup |-> lookup,
     files |-> MessageDataFiles(full)
               @@ ("messages/chats-full.json" :> full) @@ chatsFile]

\* Lines 533-558, messages being the message objects, jm and ja the
\* outcomes of the loops over the two join tables.
MessagesPlaced(db, lookup, jh, chatsFile, messages, jm, ja) ==
    IF jm.exc # "" THEN [exc |-> jm.exc, lookup |-> lookup, files |-> chatsFile]
    ELSE IF ja.exc # ""
    THEN [exc |-> ja.exc, lookup |-> lookup, files |-> chatsFile]
    ELSE MessagesWritten(lookup, chatsFile,
                         ChatsJson(db.chats, jh.handles, jh.members,
                                   messages, jm.placed, ja.attached))

\* Lines 507-558, messages being the message objects.
MessagesLoaded(db, lookup, jh, chatsFile, messages) ==
    MessagesPlaced(db, lookup, jh, chatsFile, messages,
                   JoinMessages(db.chat_message_join, db.chats, messages,
                                NoLists(Len(db.chats))),
                   JoinAttachments(db.message_attachment_join, messages,
                                   db.attachments, NoLists(Len(messages))))

\* Lines 505-558, jh being the outcome of the loop over chat_handle_join.
MessagesJoined(db, lookup, jh) ==
    IF jh.exc # "" THEN [exc |-> jh.exc, lookup |-> lookup, files |-> EmptyDict]
    ELSE MessagesLoaded(db, lookup, jh,
                        "messages/chats.json" :>
                            ChatsJson(db.chats, jh.handles, jh.members, <<>>,
                                      NoLists(Len(db.chats)), <<>>),
                        LoadMessages(db.messages, jh.handles, lookup))

\* Lines 478-558: [exc, lookup, files], files the JSON files written before
\* the pipeline ended.
MessagesBody(db, lookup) ==
    MessagesJoined(db, lookup,
                   JoinHandles(db.chat_handle_join, db.chats,
                               LoadHandles(db.handles),
                               NoLists(Len(db.chats)), lookup))

(***************************************************************************)
(* The scratch-copy cache and the backup accessors.  disk maps the paths   *)
(* of the backup store to what the files hold, tmp the paths under /tmp.   *)
(***************************************************************************)
\* str() inside an f-string.
Format(v) == IF v = None THEN "None" ELSE v

\* Mutant: the copy is made whether or not the scratch file exists.
make_temporary_copy_always(id, src_path, dst_path, tmp, disk) ==
    LET dst == IF Truthy(dst_path) THEN dst_path ELSE src_path
        tmp_path == "/tmp/" \o Format(id) \o "/" \o dst
    IN  IF src_path \notin DOMAIN disk
        THEN [exc |-> "FileNotFoundError", path |-> tmp_path,
              tmp |-> tmp, copied |-> FALSE]
        ELSE [exc |-> "", path |-> tmp_path,
              tmp |-> DictSet(tmp, tmp_path, disk[src_path]), copied |-> TRUE]

\* make_temporary_copy: [exc, path, tmp, copied].
make_temporary_copy(id, src_path, dst_path, tmp, disk) ==
    LET dst == IF Truthy(dst_path) THEN dst_path ELSE src_path
        tmp_path == "/tmp/" \o Format(id) \o "/" \o dst
    IN  IF tmp_path \in DOMAIN tmp
        THEN [exc |-> "", path |-> tmp_path, tmp |-> tmp, copied |-> FALSE]
        ELSE IF src_path \notin DOMAIN disk
        THEN [exc |-> "FileNotFoundError", path |-> tmp_path,
              tmp |-> tmp, copied |-> FALSE]
        ELSE [exc |-> "", path |-> tmp_path,
              tmp |-> DictSet(tmp, tmp_path, disk[src_path]), copied |-> TRUE]

\* id[:2]
Prefix2(id) == SubSeq(id, 1, IF Len(id) < 2 THEN Len(id) ELSE 2)

\* IOSBackupFile.__init__: real_path is <backup path>/<id[:2]>/<id>.
IOSBackupFile(bk, domain, path, id) ==
    [domain |-> domain, path |-> path, id |-> id,
     real_path |-> bk.path \o "/" \o Str(Prefix2(id)) \o "/" \o Str(id)]

\* The rows of Files that a query on (domain, relativePath) selects.
Matching(db, domain, path) ==
    SelectSeq(db, LAMBDA row : row.domain = domain /\ row.relativePath = path)

\* Mutant: the first of several matching rows is returned.
file_first(bk, domain, path) ==
    LET results == Matching(bk.db, domain, path)
    IN  IF results = <<>>
        THEN [exc |-> "FileNotFoundException", file |-> None]
        ELSE [exc |-> "",
              file |-> IOSBackupFile(bk, domain, path, results[1].fileID)]

\* IOSBackup.file: [exc, file].
file(bk, domain, path) ==
    LET results == Matching(bk.db, domain, path)
    IN  IF Len(results) # 1
        THEN [exc |-> "FileNotFoundException", file |-> None]
        ELSE [exc |-> "",
              file |-> IOSBackupFile(bk, domain, path, results[1].fileID)]

\* IOSBackupFile.open_db: [exc, path, tmp, copied, db, key], key being the
\* (scope key, logical name, content id) of the call.
open_db(bk, f, tmp, disk) ==
    LET scope == Format(bk.id) \o "/" \o f.domain
        c == make_temporary_copy(scope, f.real_path, f.path, tmp, disk)
    IN  [exc |-> c.exc, path |-> c.path, tmp |-> c.tmp, copied |-> c.copied,
         db |-> IF c.exc = "" THEN c.tmp[c.path] ELSE None,
         key |-> <<scope, f.path, f.id>>]

\* The path of a candidate directory: os.path.join(backup_root, backup_id).
backup_root == "/Volumes/Backups/iPhone/Active/"

DirPath(dir) == backup_root \o dir.name

\* The files of the backup store under a candidate directory.
Disk(dir) ==
    LET path(id) == DirPath(dir) \o "/" \o Str(Prefix2(id)) \o "/" \o Str(id)
    IN  [p \in {path(id) : id \in DOMAIN dir.blobs} |->
            dir.blobs[CHOOSE id \in DOMAIN dir.blobs : path(id) = p]]
        @@ ((DirPath(dir) \o "/" \o "Manifest.db") :> dir.manifest)

NoBackup == [path |-> None]

\* IOSBackup.__init__: [exc, backup, tmp].
IOSBackup(dir, tmp) ==
    LET id == dir.info.id
        c == make_temporary_copy(id, DirPath(dir) \o "/" \o "Manifest.db",
                                 "Manifest.db", tmp, Disk(dir))
    IN  IF dir.plist = "absent"
        THEN [exc |-> "InvalidBackupException", backup |-> NoBackup, tmp |-> tmp]
        ELSE IF dir.plist = "corrupt"
        THEN [exc |-> "InvalidFileException", backup |-> NoBackup, tmp |-> tmp]
        ELSE IF c.exc # ""
        THEN [exc |-> c.exc, backup |-> NoBackup, tmp |-> tmp]
        ELSE [exc |-> "", tmp |-> c.tmp,
              backup |-> [path |-> DirPath(dir), id |-> id,
                          apps |-> dir.info.apps,
                          manifest_temp_path |-> c.path,
                          db |-> c.tmp[c.path]]]

\* The Applications entry of an Info.plist that has none.
NoApplications == {None}

\* IOSBackup.app: the exception it raises, "" when it returns the application.
app(bk, id) ==
    IF bk.apps = NoApplications THEN "TypeError"
    ELSE IF id \notin bk.apps THEN "ApplicationNotFoundException"
    ELSE ""

\* IOSBackupApplication.files[path]: of several rows with that path the last
\* one stays in the dict.
AppFile(bk, id, path) ==
    LET results == Matching(bk.db, "AppDomain-" \o id, path)
    IN  IF results = <<>> THEN [exc |-> "KeyError", file |-> None]
        ELSE [exc |-> "",
              file |-> IOSBackupFile(bk, "AppDomain-" \o id, path,
                                     results[Len(results)].fileID)]

(***************************************************************************)
(* The state of a run.                                                     *)
(***************************************************************************)
VARIABLES
    PHOTOS_BACKUP_IDS,  \* the configured ids (line 18; shipped empty)
    BACKUP_PHOTOS_ROOT, \* the modification times of the files of the archive
    CONTACTS_LOOKUP,    \* the process-wide table (line 49)
    scanned,            \* the entries of os.listdir consumed so far
    dir,                \* the candidate directory of the current iteration
    scan,               \* how IOSBackup(...) ended for it: "ok" or the exception
    backup,             \* the global backup: the last handle constructed
    ran,                \* how each pipeline run on the current backup ended
    exc,                \* the uncaught exception that ended the run, or ""
    tmp,                \* the files under /tmp
    out,                \* the JSON files written
    opened,             \* per open_db key: calls, copies made, paths returned
    ret                 \* the outcome of the last direct call of backup.file

vars == <<PHOTOS_BACKUP_IDS, BACKUP_PHOTOS_ROOT, CONTACTS_LOOKUP, scanned, dir, scan, backup, ran,
          exc, tmp, out, opened, ret>>

BoardGameStats == "nl.vissering.BoardGameStats"
AddressBookPath == "Library/AddressBook/AddressBook.sqlitedb"
SmsPath == "Library/SMS/sms.db"

\* Mutant: the messaging pipeline is listed before the contacts pipeline.
backup_functions_swapped ==
    <<"backup_bgstats", "backup_messages", "backup_contacts", "backup_photos">>

\* backup_functions (lines 609-614).
backup_functions ==
    <<"backup_bgstats", "backup_contacts", "backup_messages", "backup_photos">>

\* The place of a pipeline in backup_functions.
Position(name) ==
    CHOOSE k \in 1..Len(backup_functions) : backup_functions[k] = name

\* The except clause of the scan loop (line 624).
CaughtByScan(e) == e = "InvalidBackupException"

\* Mutant: the dispatch loop catches nothing.
CaughtByDispatch_nothing(e) == FALSE

\* The except clause of the dispatch loop (line 632).
CaughtByDispatch(e) == e = "ApplicationNotFoundException"

\* The loop is between two backups: nothing constructed yet, the last
\* candidate skipped, or every pipeline run.
Scanning ==
    exc = "" /\ (scan # "ok" \/ Len(ran) = Len(backup_functions))

\* The dispatch loop is about to call the pipeline of that name.
Dispatching(name) ==
    exc = "" /\ scan = "ok" /\ Len(ran) = Position(name) - 1

\* The bookkeeping of one open_db call: a call in which the copy raises
\* returns no path (line 270 assigns nothing).
Opened(o) ==
    LET old == IF o.key \in DOMAIN opened THEN opened[o.key]
               ELSE [calls |-> 0, copies |-> 0, paths |-> {}]
    IN  DictSet(opened, o.key,
                [calls |-> old.calls + 1,
                 copies |-> old.copies + (IF o.copied THEN 1 ELSE 0),
                 paths |-> IF o.exc = "" THEN old.paths \cup {o.path}
                           ELSE old.paths])

\* The end of one pipeline call inside the try of lines 630-633.
Return(result, lookup2, tmp2, out2, opened2) ==
    /\ ran' = Append(ran, result)
    /\ exc' = IF result = "ok" \/ CaughtByDispatch(result) THEN "" ELSE result
    /\ CONTACTS_LOOKUP' = lookup2
    /\ tmp' = tmp2
    /\ out' = out2
    /\ opened' = opened2
    /\ UNCHANGED <<PHOTOS_BACKUP_IDS, BACKUP_PHOTOS_ROOT, scanned, dir, scan,
                   backup, ret>>

\* The end of a pipeline whose database was opened by the call o of open_db
\* and whose queries and loops ended as body says.
ReturnBody(body, o) ==
    Return(IF body.exc = "" THEN "ok" ELSE body.exc,
           body.lookup, o.tmp, body.files @@ out, Opened(o))

\* Lines 620-626: the next entry of os.listdir, one of family, at most
\* limit entries in all.
Scan(family, limit) ==
    /\ Scanning
    /\ scanned < limit
    /\ \E d \in family :
          LET here == [d EXCEPT !.name = "backup" \o ToString(scanned + 1)]
              r == IOSBackup(here, tmp)
          IN  /\ dir' = here
              /\ scanned' = scanned + 1
              /\ scan' = IF r.exc = "" THEN "ok" ELSE r.exc
              /\ backup' = IF r.exc = "" THEN r.backup ELSE backup
              /\ exc' = IF r.exc = "" \/ CaughtByScan(r.exc) THEN "" ELSE r.exc
              /\ tmp' = r.tmp
              /\ ran' = <<>>
              /\ UNCHANGED <<PHOTOS_BACKUP_IDS, BACKUP_PHOTOS_ROOT,
                             CONTACTS_LOOKUP, out, opened, ret>>

(***************************************************************************)
(* backup_bgstats, after Model.sqlite is open.  A board game database is   *)
(* [locations, games, players, plays, scores, expansions], each a sequence *)
(* of rows.  A nullable number is <<>> for NULL and <<n>> for n; a text    *)
(* column is a sequence of characters, NoneSeq for NULL; a reference to a  *)
(* row is its id, 0 when it names no row.                                  *)
(***************************************************************************)
\* The name of the row a LEFT JOIN finds, None when there is none.
NameOf(rows, id) ==
    IF IndexOf(rows, id) = 0 THEN None ELSE rows[IndexOf(rows, id)].name

\* The separator of group_concat at line 342, the full-width solidus
\* U+FF0F, written with the ASCII solidus.
Solidus == "/"

\* group_concat(expansion_game.ZNAME, Solidus) for one play.  SQLite
\* leaves the order of the concatenated names unspecified: order is the
\* order in which the join visits the rows of ZEXPANSIONPLAY.  A NULL name
\* is skipped, and the result is None when no name is left.
ExpansionsOf(db, play_id, order) ==
    LET names == [i \in 1..Len(order) |->
                     IF db.expansions[order[i]].play_id = play_id
                     THEN NameOf(db.games, db.expansions[order[i]].game_id)
                     ELSE None]
        kept == SelectSeq(names, LAMBDA n : n # None)
    IN  IF kept = <<>> THEN None ELSE Join(kept, Solidus)

\* The rows of the query of lines 328-352, one per play.
PlaysFullQuery(db, order) ==
    [i \in 1..Len(db.plays) |->
        [id |-> db.plays[i].id, date |-> db.plays[i].date,
         game |-> NameOf(db.games, db.plays[i].game_id),
         location |-> NameOf(db.locations, db.plays[i].location_id),
         expansions |-> ExpansionsOf(db, db.plays[i].id, order)]]

\* Lines 354-357: datetime.date(2001, 1, 1) + timedelta(seconds=date), the
\* date written as the days after 2001-01-01; a NULL date raises TypeError.
ConvertDates(plays) ==
    IF \E i \in 1..Len(plays) : plays[i].date = <<>>
    THEN [exc |-> "TypeError", plays |-> plays]
    ELSE [exc |-> "",
          plays |-> [i \in 1..Len(plays) |->
                        [plays[i] EXCEPT !.date = <<@[1] \div 86400>>]]]

\* str.isalnum for text of digits and lower-case letters.
IsAlnum(s) == s # <<>> /\ Range(s) \subseteq (Digits \cup Letters \cup {"x"})

\* A Python int as a score: told apart from text by its first element.
PyInt(n) == <<"int", n>>

\* The value of a decimal literal.
RECURSIVE Decimal(_, _)
Decimal(ds, acc) ==
    IF ds = <<>> THEN acc ELSE Decimal(Tail(ds), 10 * acc + (CHOOSE n \in 0..9 : ToString(n) = Head(ds)))

\* A decimal literal of Python 3: no leading zero unless it is all zeros.
ValidLiteral(ds) == ds # <<>> /\ (ds[1] # "0" \/ Range(ds) = {"0"})

\* eval of an expression of digits, "+" and "-": [exc, value].  total is
\* the sum of the terms read, sign the sign of the term being read and
\* literal its digits so far.  Text with any other character is not
\* modelled and no database of the model holds it.
RECURSIVE EvalSum(_, _, _, _)
EvalSum(s, total, sign, literal) ==
    IF s = <<>>
    THEN IF ValidLiteral(literal)
         THEN [exc |-> "", value |-> PyInt(total + sign * Decimal(literal, 0))]
         ELSE [exc |-> "SyntaxError", value |-> None]
    ELSE IF Head(s) \in Digits
    THEN EvalSum(Tail(s), total, sign, Append(literal, Head(s)))
    ELSE IF Head(s) \notin {"+", "-"}
    THEN [exc |-> "Unmodelled", value |-> None]
    ELSE IF literal = <<>>
    THEN EvalSum(Tail(s), total, IF Head(s) = "-" THEN 0 - sign ELSE sign, <<>>)
    ELSE IF ValidLiteral(literal)
    THEN EvalSum(Tail(s), total + sign * Decimal(literal, 0),
                 IF Head(s) = "-" THEN 0 - 1 ELSE 1, <<>>)
    ELSE [exc |-> "SyntaxError", value |-> None]

\* Lines 380-381: [exc, value].  A NULL score has no isalnum; alphanumeric
\* text stays as it is; other text is evaluated, empty text as "0".
Score(score) ==
    IF score = NoneSeq THEN [exc |-> "AttributeError", value |-> None]
    ELSE IF IsAlnum(score) THEN [exc |-> "", value |-> score]
    ELSE EvalSum(IF score = <<>> THEN <<"0">> ELSE score, 0, 1, <<>>)

\* The player object of one score row (lines 361-386), value being its
\* score after line 381: "play_id" deleted, "winner" a bool, "team" absent
\* when it is NULL.
PlayerFull(db, row, value) ==
    [name |-> NameOf(db.players, row.player_id),
     winner |-> row.winner # <<>> /\ row.winner # <<0>>,
     score |-> value, team |-> row.team]

\* The loop of lines 376-388: [exc, players], players[p] the list under
\* the "players" key of play number p.
RECURSIVE JoinPlayers(_, _, _, _)
RECURSIVE JoinPlayer(_, _, _, _, _, _)
JoinPlayers(db, rows, plays, players) ==
    IF rows = <<>> THEN [exc |-> "", players |-> players]
    ELSE JoinPlayer(db, rows, plays, players,
                    Score(Head(rows).score), IndexOf(plays, Head(rows).play_id))

\* One turn of it: sc the outcome of lines 380-381 for the first row, p the
\* number of its play.
JoinPlayer(db, rows, plays, players, sc, p) ==
    IF sc.exc # "" THEN [exc |-> sc.exc, players |-> players]
    ELSE IF p = 0 THEN [exc |-> "KeyError", players |-> players]
    ELSE JoinPlayers(db, Tail(rows), plays,
                     [players EXCEPT
                         ![p] = Append(@, PlayerFull(db, Head(rows), sc.value))])

\* The six files of simple_queries (lines 298-325).
SimpleFiles(db) ==
    ("BGStats/locations.json" :> db.locations)
    @@ ("BGStats/games.json" :> db.games)
    @@ ("BGStats/players.json" :> db.players)
    @@ ("BGStats/plays.json" :> db.plays)
    @@ ("BGStats/scores.json" :> db.scores)
    @@ ("BGStats/plays-expansion.json" :> db.expansions)

\* Line 390, joined being the outcome of the loop over the score rows.
PlaysFullWritten(db, plays, joined) ==
    IF joined.exc # "" THEN [exc |-> joined.exc, files |-> SimpleFiles(db)]
    ELSE [exc |-> "",
          files |-> ("BGStats/plays-full.json" :>
                        [p \in 1..Len(plays) |->
                            [id |-> plays[p].id, date |-> plays[p].date,
                             game |-> plays[p].game,
                             location |-> plays[p].location,
                             expansions |-> plays[p].expansions,
                             players |-> joined.players[p]]])
                    @@ SimpleFiles(db)]

\* Lines 359-390, dated being the outcome of the loop over the plays.
PlaysDated(db, dated) ==
    IF dated.exc # "" THEN [exc |-> dated.exc, files |-> SimpleFiles(db)]
    ELSE PlaysFullWritten(db, dated.plays,
                          JoinPlayers(db, db.scores, dated.plays,
                                      NoLists(Len(dated.plays))))

\* Lines 297-390: [exc, files], files the JSON files written before the
\* pipeline ended, order being the order of the expansion rows in the join.
BgstatsBody(db, order) ==
    PlaysDated(db, ConvertDates(PlaysFullQuery(db, order)))

backup_bgstats ==
    /\ Dispatching("backup_bgstats")
    /\ LET a == app(backup, BoardGameStats)
           f == AppFile(backup, BoardGameStats, "Documents/Model.sqlite")
           o == open_db(backup, f.file, tmp, Disk(dir))
       IN  IF a # "" THEN Return(a, CONTACTS_LOOKUP, tmp, out, opened)
           ELSE IF f.exc # "" THEN Return(f.exc, CONTACTS_LOOKUP, tmp, out, opened)
           ELSE IF o.exc # ""
           THEN Return(o.exc, CONTACTS_LOOKUP, tmp, out, Opened(o))
           ELSE \E order \in {p \in [DOMAIN o.db.expansions ->
                                          DOMAIN o.db.expansions] :
                                  \A i, j \in DOMAIN p : p[i] = p[j] => i = j} :
                    ReturnBody(BgstatsBody(o.db, order)
                                   @@ [lookup |-> CONTACTS_LOOKUP], o)

backup_contacts ==
    /\ Dispatching("backup_contacts")
    /\ LET f == file(backup, "HomeDomain", AddressBookPath)
           o == open_db(backup, f.file, tmp, Disk(dir))
       IN  IF f.exc # "" THEN Return(f.exc, CONTACTS_LOOKUP, tmp, out, opened)
           ELSE IF o.exc # ""
           THEN Return(o.exc, CONTACTS_LOOKUP, tmp, out, Opened(o))
           ELSE ReturnBody(ContactsBody(o.db, CONTACTS_LOOKUP), o)

backup_messages ==
    /\ Dispatching("backup_messages")
    /\ LET f == file(backup, "HomeDomain", SmsPath)
           o == open_db(backup, f.file, tmp, Disk(dir))
       IN  IF f.exc # "" THEN Return(f.exc, CONTACTS_LOOKUP, tmp, out, opened)
           ELSE IF o.exc # ""
           THEN Return(o.exc, CONTACTS_LOOKUP, tmp, out, Opened(o))
           ELSE IF CONTACTS_LOOKUP = EmptyDict
           THEN Return("ContactsNotDefinedException",
                       CONTACTS_LOOKUP, o.tmp, out, Opened(o))
           ELSE ReturnBody(MessagesBody(o.db, CONTACTS_LOOKUP), o)

\* PHOTOS_INTERESTING_EXTENSIONS (lines 20-28).
PHOTOS_INTERESTING_EXTENSIONS ==
    {"HEIC", "JPG", "JPEG", "PNG", "GIF", "MOV", "MP4"}

\* The file names of the camera roll, as <<text before the last ".", text
\* after it>>.
CameraNames ==
    {<<"IMG_0001", "JPG">>, <<"IMG_0002", "jpg">>, <<"IMG_0001", "AAE">>,
     <<"Photos", "sqlite">>}

\* relativePath like 'Media/DCIM/%' (lines 174-175).
LikeDCIM(path) ==
    \E n \in CameraNames : path = "Media/DCIM/100APPLE/" \o n[1] \o "." \o n[2]

\* path.split(".")[-1]
Extension(path) ==
    (CHOOSE n \in CameraNames :
        \E d \in {"Media/DCIM/100APPLE/", "Media/PhotoData/"} : path = d \o n[1] \o "." \o n[2])[2]

\* str.upper on these extensions.
Upper(ext) ==
    IF ext = "jpg" THEN "JPG" ELSE IF ext = "sqlite" THEN "SQLITE" ELSE ext

\* backup.files("CameraRollDomain", "Media/DCIM/%") (lines 159-189): rows
\* of the manifest the handle reads.
CameraRoll(bk) ==
    SelectSeq(bk.db, LAMBDA row : /\ row.domain = "CameraRollDomain"
                                  /\ LikeDCIM(row.relativePath))

\* Lines 568-595: the photo is not older than the newest file of the
\* archive and passes the extension filter.
Interesting(row, root) ==
    /\ ~\E m \in root : row.file.LastModified < m
    /\ Upper(Extension(row.relativePath)) \in PHOTOS_INTERESTING_EXTENSIONS

\* Lines 561-606.  The first photo that passes both filters reaches line
\* 600, which reads the undefined name root.
backup_photos ==
    /\ Dispatching("backup_photos")
    /\ IF backup.id \notin PHOTOS_BACKUP_IDS
       THEN Return("SystemExit", CONTACTS_LOOKUP, tmp, out, opened)
       ELSE IF \E i \in DOMAIN CameraRoll(backup) :
                  Interesting(CameraRoll(backup)[i], BACKUP_PHOTOS_ROOT)
       THEN Return("NameError", CONTACTS_LOOKUP, tmp, out, opened)
       ELSE Return("ok", CONTACTS_LOOKUP, tmp, out, opened)

\* A direct call backup.file(domain, path) on the handle just constructed.
CallFile(domain, path) ==
    /\ Dispatching(backup_functions[1])
    /\ LET r == file(backup, domain, path)
       IN  ret' = [domain |-> domain, path |-> path, exc |-> r.exc,
                   id |-> IF r.exc = "" THEN r.file.id ELSE NoneSeq,
                   real_path |-> IF r.exc = "" THEN r.file.real_path ELSE None]
    /\ UNCHANGED <<PHOTOS_BACKUP_IDS, BACKUP_PHOTOS_ROOT, CONTACTS_LOOKUP,
                   scanned, dir, scan, backup, ran, exc, tmp, out, opened>>


(***************************************************************************)
(* The bounded inputs.                                                     *)
(***************************************************************************)
\* The most candidate directories os.listdir returns.
MaxDirs == 2

\* "Unique Identifier" of the Info.plist files.
DeviceIds == {"A", "B"}

\* Raw contact strings.
RawDashed == <<"5", "5", "5", "-", "1", "2", "3", "4">>
RawParens == <<"(", "5", "5", "5", ")", " ", "1", "2", "3", "4">>
RawShort == <<"5", "5", "5", "1", "2">>
RawEmail == <<"a", "@", "b", ".", "c", "o", "m">>
RawEmailDigits == <<"m", "e", "@", "1", "2", "3", ".", "c", "o", "m">>
RawWord == <<"h", "o", "m", "e">>
RawCanonical == <<"+", "1", "5", "5", "5", "1", "2", "3", "4">>

\* Rows of ABPerson.
Alice ==
    [id |-> 1, uuid |-> "uuid-alice", first_name |-> "Alice",
     last_name |-> "Liddell", nickname |-> None, organization |-> None]
Bob ==
    [id |-> 2, uuid |-> "uuid-bob", first_name |-> "Bob",
     last_name |-> None, nickname |-> "Bobby", organization |-> "Acme"]
Carol ==
    [id |-> 3, uuid |-> None, first_name |-> None,
     last_name |-> None, nickname |-> None, organization |-> "Carol Ltd"]

\* Address books: none with people, Alice with a phone number, Bob with an
\* e-mail address, Alice beside a person without contact values.
ABEmpty == [people |-> <<>>, values |-> <<>>]
ABAlice ==
    [people |-> <<Alice>>, values |-> <<[person_id |-> 1, value |-> RawDashed]>>]
ABBob ==
    [people |-> <<Bob>>, values |-> <<[person_id |-> 2, value |-> RawEmail]>>]
ABLonely ==
    [people |-> <<Alice, Bob>>,
     values |-> <<[person_id |-> 1, value |-> RawDashed]>>]

\* A messaging database: one chat with one member, a message of that member
\* and one whose handle_id is no row of handle, one attachment.
SmsOne ==
    [chats |-> <<[id |-> 1, guid |-> "chat-1"]>>,
     handles |-> <<[id |-> 1, contact |-> RawParens]>>,
     chat_handle_join |-> <<[chat_id |-> 1, handle_id |-> 1]>>,
     messages |-> <<[id |-> 1, handle_id |-> 1], [id |-> 2, handle_id |-> 0]>>,
     chat_message_join |-> <<[chat_id |-> 1, message_id |-> 1],
                             [chat_id |-> 1, message_id |-> 2]>>,
     attachments |-> <<[id |-> 1]>>,
     message_attachment_join |-> <<[message_id |-> 1, attachment_id |-> 1]>>]

\* The database of the board game application: two plays, the first with
\* an expansion; scores that are a number, empty text and an expression.
ModelSqlite ==
    [locations |-> <<[id |-> 1, name |-> "Home"]>>,
     games |-> <<[id |-> 1, name |-> "Go"], [id |-> 2, name |-> "Go Plus"]>>,
     players |-> <<[id |-> 1, name |-> "Alice"]>>,
     plays |-> <<[id |-> 1, date |-> <<86400>>, game_id |-> 1, location_id |-> 1],
                 [id |-> 2, date |-> <<0>>, game_id |-> 0, location_id |-> 0]>>,
     scores |-> <<[id |-> 1, play_id |-> 1, player_id |-> 1, winner |-> <<1>>,
                   score |-> <<"1", "0">>, team |-> <<>>],
                  [id |-> 2, play_id |-> 1, player_id |-> 0, winner |-> <<>>,
                   score |-> <<>>, team |-> <<1>>],
                  [id |-> 3, play_id |-> 2, player_id |-> 1, winner |-> <<0>>,
                   score |-> <<"-", "5">>, team |-> <<>>]>>,
     expansions |-> <<[id |-> 1, play_id |-> 1, game_id |-> 2]>>]

\* Databases on which plays-full cannot be built: a NULL score, a score
\* that is no expression, a score of a play that does not exist, a NULL
\* date.
BrokenModels ==
    {[ModelSqlite EXCEPT !.scores[2].score = NoneSeq],
     [ModelSqlite EXCEPT !.scores[2].score = <<"1", "+">>],
     [ModelSqlite EXCEPT !.scores[3].play_id = 0],
     [ModelSqlite EXCEPT !.plays[2].date = <<>>]}

\* A database whose first play has three expansions, stored in another
\* order than that of their games and one of a game without a name, and
\* whose second play is dated before 2001-01-01.
ExpandedModel ==
    [ModelSqlite EXCEPT
        !.games = Append(@, [id |-> 3, name |-> None]),
        !.plays[2].date = <<-1>>,
        !.expansions = <<[id |-> 1, play_id |-> 1, game_id |-> 2],
                         [id |-> 2, play_id |-> 1, game_id |-> 3],
                         [id |-> 3, play_id |-> 1, game_id |-> 1]>>]

\* Files of the camera roll domain: a photo newer than the archive, an
\* older one, a sidecar file and the photo library.
NewPhoto == [path |-> "Media/DCIM/100APPLE/IMG_0001.JPG", modified |-> 3]
OldPhoto == [path |-> "Media/DCIM/100APPLE/IMG_0002.jpg", modified |-> 1]
Sidecar == [path |-> "Media/DCIM/100APPLE/IMG_0001.AAE", modified |-> 3]
PhotoLibrary == [path |-> "Media/PhotoData/Photos.sqlite", modified |-> 3]

\* The file ids of the rows of one (domain, path): prefix and row number.
FileIds(prefix, n) == {prefix \o <<ToString(i)>> : i \in 1..n}

\* The rows of Files and the blobs for the items stored under one
\* (domain, path), one row per item.
Rows(domain, path, prefix, items) ==
    [i \in 1..Len(items) |->
        [domain |-> domain, relativePath |-> path,
         fileID |-> prefix \o <<ToString(i)>>, file |-> [LastModified |-> 0]]]

\* The rows of Files for the files of the camera roll domain, each with the
\* LastModified of its metadata.
PhotoRows(photos) ==
    [i \in 1..Len(photos) |->
        [domain |-> "CameraRollDomain", relativePath |-> photos[i].path,
         fileID |-> <<"c", "r", "0", ToString(i)>>,
         file |-> [LastModified |-> photos[i].modified]]]

Blobs(prefix, items) ==
    [id \in FileIds(prefix, Len(items)) |->
        items[CHOOSE i \in 1..Len(items) : prefix \o <<ToString(i)>> = id]]

\* A directory with an Info.plist: the address books, messaging databases
\* and board game databases its manifest lists.
MkDir(id, apps, abs, sms, games, photos) ==
    [name |-> "", plist |-> "ok", info |-> [id |-> id, apps |-> apps],
     manifest |->
        Rows("HomeDomain", AddressBookPath, <<"a", "b", "0">>, abs)
        \o Rows("HomeDomain", SmsPath, <<"3", "d", "0">>, sms)
        \o Rows("AppDomain-" \o BoardGameStats, "Documents/Model.sqlite",
                <<"7", "f", "0">>, games)
        \o PhotoRows(photos),
     blobs |-> Blobs(<<"a", "b", "0">>, abs) @@ Blobs(<<"3", "d", "0">>, sms)
               @@ Blobs(<<"7", "f", "0">>, games)
               @@ Blobs(<<"c", "r", "0">>, photos)]

\* Directories whose Info.plist is missing or is no property list.
InvalidDirs ==
    {[name |-> "", plist |-> p, info |-> [id |-> None, apps |-> NoApplications],
      manifest |-> <<>>, blobs |-> EmptyDict] :
        p \in {"absent", "corrupt"}}

\* The candidate directories of the run, those included whose manifest
\* lists a database that is not stored in the directory.
Dirs ==
    InvalidDirs \cup
    {MkDir(id, a[1], abs, sms, a[2], <<>>) :
        id \in DeviceIds,
        a \in {<<NoApplications, <<>>>>, <<{}, <<>>>>,
               <<{BoardGameStats}, <<>>>>, <<{BoardGameStats}, <<ModelSqlite>>>>},
        abs \in {<<>>, <<ABEmpty>>, <<ABAlice>>, <<ABBob>>, <<ABLonely>>,
                 <<ABAlice, ABBob>>},
        sms \in {<<>>, <<SmsOne>>}}
    \cup
    {MkDir(id, {BoardGameStats}, <<ABAlice>>, <<SmsOne>>, <<g>>, <<>>) :
        id \in DeviceIds, g \in BrokenModels \cup {ExpandedModel}}
    \cup
    {[d EXCEPT !.blobs = [k \in DOMAIN d.blobs \ {lost} |-> d.blobs[k]]] :
        d \in {MkDir(id, {BoardGameStats}, abs, <<SmsOne>>,
                     <<ModelSqlite>>, <<>>) :
                  id \in DeviceIds, abs \in {<<ABAlice>>, <<ABEmpty>>}},
        lost \in {<<"a", "b", "0", "1">>, <<"3", "d", "0", "1">>,
                  <<"7", "f", "0", "1">>}}
    \cup
    {MkDir(id, {}, <<ABAlice>>, <<SmsOne>>, <<>>, photos) :
        id \in DeviceIds,
        photos \in {<<NewPhoto>>, <<OldPhoto>>, <<Sidecar, PhotoLibrary>>,
                    <<OldPhoto, NewPhoto>>}}

(***************************************************************************)
(* The run: the module-level loop of lines 620-633.                        *)
(***************************************************************************)
NoDir == [name |-> None]

\* PHOTOS_BACKUP_IDS is configuration: empty as shipped, or listing every
\* device.  The archive is empty or holds a file of time 2.
Init ==
    /\ PHOTOS_BACKUP_IDS \in {{}, DeviceIds}
    /\ BACKUP_PHOTOS_ROOT \in {{}, {2}}
    /\ CONTACTS_LOOKUP = EmptyDict
    /\ scanned = 0
    /\ dir = NoDir
    /\ scan = ""
    /\ backup = NoBackup
    /\ ran = <<>>
    /\ exc = ""
    /\ tmp = EmptyDict
    /\ out = EmptyDict
    /\ opened = EmptyDict
    /\ ret = [exc |-> None]

Next ==
    \/ Scan(Dirs, MaxDirs)
    \/ backup_bgstats
    \/ backup_contacts
    \/ backup_messages
    \/ backup_photos

Spec == Init /\ [][Next]_vars

(***************************************************************************)
(* IOSBackup.file against manifests whose rows share (domain, path).       *)
(***************************************************************************)
\* The most rows of Files in a manifest of this family.
MaxRows == 2

\* The sequences over S of length at most n.
SeqsUpTo(S, n) == UNION {[1..k -> S] : k \in 0..n}

\* The sequences over S of length at most n that repeat no element.
DistinctSeqs(S, n) ==
    {q \in SeqsUpTo(S, n) : \A i, j \in DOMAIN q : q[i] = q[j] => i = j}

FileDomains == {"HomeDomain", "MediaDomain"}
FilePaths == {AddressBookPath, SmsPath}
ManifestIds == {<<"a", "b", "0", "1">>, <<"a", "b", "0", "2">>,
                <<"3", "d", "0", "1">>}

\* Manifests: fileID is the primary key of Files.
Manifests ==
    {m \in SeqsUpTo([domain : FileDomains, relativePath : FilePaths,
                     fileID : ManifestIds, file : {[LastModified |-> 0]}],
             MaxRows) :
        \A i, j \in DOMAIN m : m[i].fileID = m[j].fileID => i = j}

DirsFile ==
    {[name |-> "", plist |-> "ok", info |-> [id |-> "A", apps |-> {}],
      manifest |-> m,
      blobs |-> [id \in {m[i].fileID : i \in DOMAIN m} |-> ABEmpty]] :
        m \in Manifests}

NextFile ==
    \/ Scan(DirsFile, 1)
    \/ \E d \in FileDomains, p \in FilePaths : CallFile(d, p)

SpecFile == Init /\ [][NextFile]_vars

\* The rows of the manifest the handle reads that carry the (domain, path)
\* of the last call of backup.file.
Asked ==
    {i \in DOMAIN backup.db :
        /\ backup.db[i].domain = ret.domain
        /\ backup.db[i].relativePath = ret.path}

\* C1 as stated: a unique row gives its content id, no row the not-found
\* error, several rows a separate AmbiguousFile error.
C1_AmbiguousFile ==
    ret.exc # None =>
        /\ Cardinality(Asked) = 1 =>
              ret.exc = "" /\ \E i \in Asked : ret.id = backup.db[i].fileID
        /\ Cardinality(Asked) = 0 => ret.exc = "FileNotFoundException"
        /\ Cardinality(Asked) >= 2 => ret.exc = "AmbiguousFile"

\* C1, amended: backup.file(domain, path) returns the content id of the
\* row when exactly one row of Files carries (domain, path); with no such
\* row and with several it raises the same FileNotFoundException and
\* returns none of the candidates.
C1_FileLookup ==
    ret.exc # None =>
        /\ Cardinality(Asked) = 1 =>
              /\ ret.exc = ""
              /\ \E i \in Asked :
                    /\ ret.id = backup.db[i].fileID
                    /\ ret.real_path =
                          backup.path \o "/" \o Str(Prefix2(ret.id))
                          \o "/" \o Str(ret.id)
        /\ Cardinality(Asked) # 1 =>
              ret.exc = "FileNotFoundException" /\ ret.id = NoneSeq

\* Several rows share the (domain, path) asked for and the call has failed.
C1_Witness ==
    /\ ret.exc = "FileNotFoundException"
    /\ Cardinality(Asked) >= 2

(***************************************************************************)
(* Properties of the run over Dirs.                                        *)
(***************************************************************************)
\* The pipeline of that name has been called on the current backup, and how
\* it ended.
Ran(name) == scan = "ok" /\ Len(ran) >= Position(name)
Result(name) == ran[Position(name)]

\* C2: for one (scope key, logical name, content id) every call of open_db
\* that returns a path returns the same scratch path, that of the scope key
\* and the logical name; the file is copied at most once; once a call has
\* returned, no later call copies again; and no call changes a file that
\* is already under /tmp.  A call that raises because the stored file is
\* missing copies nothing and returns no path.
C2_Idempotent ==
    [][/\ \A p \in DOMAIN tmp : p \in DOMAIN tmp' /\ tmp'[p] = tmp[p]
       /\ \A k \in DOMAIN opened' :
             /\ opened'[k].copies <= 1
             /\ opened'[k].paths \subseteq {"/tmp/" \o k[1] \o "/" \o k[2]}
             /\ opened'[k].paths = {} => opened'[k].copies = 0
             /\ k \in DOMAIN opened /\ opened[k].paths # {} =>
                   /\ opened'[k].copies = opened[k].copies
                   /\ opened'[k].paths = opened[k].paths]_vars

\* One key has been opened twice, the first time with a copy.
C2_Witness ==
    \E k \in DOMAIN opened : opened[k].calls >= 2 /\ opened[k].copies = 1

\* The failures the dispatch loop is said to skip.
PipelineFailures ==
    {"ApplicationNotFoundException", "FileNotFoundException",
     "ContactsNotDefinedException"}

\* C3 as stated: no pipeline failure ends the run.
C3_EveryFailureSkipped ==
    \A k \in 1..Len(ran) : ran[k] \in PipelineFailures => exc = ""

\* C3, amended: a pipeline that fails with ApplicationNotFoundException is
\* skipped and the dispatch loop goes on to the next pipeline; a pipeline
\* that fails with FileNotFoundException or ContactsNotDefinedException is
\* the last one called, the exception ending the run.
C3_OnlyApplicationNotFound ==
    /\ \A k \in 1..Len(ran) :
          /\ ran[k] = "ApplicationNotFoundException" => exc # ran[k]
          /\ ran[k] \in PipelineFailures \ {"ApplicationNotFoundException"} =>
                k = Len(ran) /\ exc = ran[k]
    /\ ran = <<"ApplicationNotFoundException">> /\ scan = "ok" =>
          Dispatching(backup_functions[2])

\* The board game pipeline was skipped and the next pipeline has run.
C3_Witness ==
    /\ Len(ran) >= 2
    /\ ran[1] = "ApplicationNotFoundException"

\* The rows of the manifest that carry the messaging database.
SmsRows ==
    {i \in DOMAIN backup.db :
        /\ backup.db[i].domain = "HomeDomain"
        /\ backup.db[i].relativePath = SmsPath}

\* The files the messaging pipeline writes: the two lists of chats and,
\* whatever the id of a chat is, messages/message-data/<id>.json (line 556).
MessagingOutput(f) ==
    \/ f \in {"messages/chats.json", "messages/chats-full.json"}
    \/ LET head == "messages/message-data/"
           tail == ".json"
       IN  /\ Len(f) > Len(head) + Len(tail)
           /\ SubSeq(f, 1, Len(head)) = head
           /\ SubSeq(f, Len(f) - Len(tail) + 1, Len(f)) = tail

\* The contacts pipeline has completed on the current backup.
ContactsCompleted ==
    \E k \in 1..Len(ran) : backup_functions[k] = "backup_contacts" /\ ran[k] = "ok"

\* C4 as stated: backup_messages is called only after backup_contacts has
\* completed on the same backup, and called with an empty table it fails
\* with ContactsNotDefinedException, writing nothing.
C4_ContactsNotLoaded ==
    [][Dispatching("backup_messages") =>
          /\ ContactsCompleted
          /\ CONTACTS_LOOKUP = EmptyDict /\ Ran("backup_messages")' =>
                /\ Result("backup_messages")' = "ContactsNotDefinedException"
                /\ out' = out]_vars

\* C4, amended: backup_messages is called only after backup_contacts has
\* completed on the same backup; called with an empty table it fails before
\* it writes anything, the lookup and the opening of sms.db coming before
\* the test of the table: with FileNotFoundException when the manifest has
\* no row or several rows that carry sms.db; with the built-in
\* FileNotFoundError when it has one such row, the file of that row is not
\* stored in the backup and no scratch copy of sms.db exists; and with
\* ContactsNotDefinedException in every other case.
C4_ContactsFirst ==
    [][Dispatching("backup_messages") =>
          /\ ContactsCompleted
          /\ CONTACTS_LOOKUP = EmptyDict /\ Ran("backup_messages")' =>
                /\ Result("backup_messages")' =
                      IF Cardinality(SmsRows) # 1
                      THEN "FileNotFoundException"
                      ELSE IF \E i \in SmsRows :
                                 \/ ("/tmp/" \o Format(backup.id) \o "/"
                                        \o "HomeDomain" \o "/" \o SmsPath)
                                       \in DOMAIN tmp
                                 \/ IOSBackupFile(backup, "HomeDomain", SmsPath,
                                                  backup.db[i].fileID).real_path
                                       \in DOMAIN Disk(dir)
                      THEN "ContactsNotDefinedException"
                      ELSE "FileNotFoundError"
                /\ out' = out
                /\ \A f \in DOMAIN out : ~MessagingOutput(f)]_vars

\* The messaging pipeline has found the table empty.
C4_Witness ==
    /\ Ran("backup_messages")
    /\ Result("backup_messages") = "ContactsNotDefinedException"
    /\ Result("backup_contacts") = "ok"
    /\ CONTACTS_LOOKUP = EmptyDict

\* C5 as stated: a directory whose Info.plist is absent or cannot be parsed
\* fails construction with InvalidBackupException and is skipped, the scan
\* going on.
C5_InvalidSkipped ==
    dir # NoDir /\ dir.plist # "ok" =>
        scan = "InvalidBackupException" /\ exc = ""

\* The address book backup_contacts read for the current backup.
AddressBookRead ==
    tmp["/tmp/" \o Format(backup.id) \o "/HomeDomain/" \o AddressBookPath]

\* What backup_contacts records from that address book alone.
OwnTable == ContactsBody(AddressBookRead, EmptyDict).lookup

\* The member handles of chats.json.
MembersWritten ==
    UNION {Range(out["messages/chats.json"][c].members) :
              c \in DOMAIN out["messages/chats.json"]}

\* C10 as stated: when backup_messages completes on a backup, the table it
\* joined against held entries of that backup's address book only, so the
\* table was not empty by them and every annotated handle carries what the
\* backup's own address book gives for its key.
C10_Isolation ==
    Ran("backup_messages") /\ Result("backup_messages") = "ok" =>
        \A own \in {OwnTable} :
            /\ own # EmptyDict
            /\ \A h \in MembersWritten :
                  h.uuid # None =>
                      /\ LookupKey(h.contact) \in DOMAIN own
                      /\ own[LookupKey(h.contact)] = <<h.uuid, h.name>>

(***************************************************************************)
(* backup_messages against messaging databases with two chats, two         *)
(* messages, two attachments and every choice of the two join tables.      *)
(***************************************************************************)
\* The most rows of chat_message_join and of message_attachment_join.
MaxJoinRows == 2

\* handle_id 0 is no row of handle.
SmsDbs ==
    {[chats |-> <<[id |-> 1, guid |-> "chat-1"], [id |-> 2, guid |-> "chat-2"]>>,
      handles |-> <<[id |-> 1, contact |-> RawParens]>>,
      chat_handle_join |-> <<[chat_id |-> 1, handle_id |-> 1]>>,
      messages |-> <<[id |-> 1, handle_id |-> 1], [id |-> 2, handle_id |-> h]>>,
      chat_message_join |-> cm,
      attachments |-> <<[id |-> 1], [id |-> 2]>>,
      message_attachment_join |-> ma] :
        h \in {0, 1},
        cm \in DistinctSeqs([chat_id : {1, 2}, message_id : {1, 2}], MaxJoinRows),
        ma \in DistinctSeqs([message_id : {1, 2}, attachment_id : {1, 2}],
                            MaxJoinRows)}

DirsMessages == {MkDir("A", {}, <<ABAlice>>, <<sms>>, <<>>, <<>>) : sms \in SmsDbs}

NextMessages ==
    \/ Scan(DirsMessages, 1)
    \/ backup_bgstats
    \/ backup_contacts
    \/ backup_messages
    \/ backup_photos

SpecMessages == Init /\ [][NextMessages]_vars

\* The messaging database backup_messages read for the current backup.
SmsRead == tmp["/tmp/" \o Format(backup.id) \o "/HomeDomain/" \o SmsPath]

\* backup_messages has written every file for the current backup.
MessagesDone == Ran("backup_messages") /\ Result("backup_messages") = "ok"

\* The ids of the rows of a list, in order.
Ids(rows) == [i \in DOMAIN rows |-> rows[i].id]

\* C6: in chats-full.json every chat of the database carries the messages
\* of the rows of chat_message_join with its id, in the order of the rows
\* and no others, and every such message carries the attachments of the
\* rows of message_attachment_join with its id, those joined after the
\* message was placed under the chat included.
C6_JoinComplete ==
    MessagesDone =>
        \A db \in {SmsRead} : \A full \in {out["messages/chats-full.json"]} :
            /\ Ids(full) = Ids(db.chats)
            /\ \A c \in DOMAIN full :
                  /\ Ids(full[c].messages) =
                        [i \in DOMAIN SelectSeq(db.chat_message_join,
                                                LAMBDA r : r.chat_id = full[c].id) |->
                            SelectSeq(db.chat_message_join,
                                      LAMBDA r : r.chat_id = full[c].id)[i].message_id]
                  /\ \A m \in Range(full[c].messages) :
                        Ids(m.attachments) =
                            [i \in DOMAIN SelectSeq(db.message_attachment_join,
                                                    LAMBDA r : r.message_id = m.id) |->
                                SelectSeq(db.message_attachment_join,
                                          LAMBDA r : r.message_id = m.id)[i].attachment_id]

\* A message placed under a chat carries an attachment.
C6_Witness ==
    /\ MessagesDone
    /\ \E c \in DOMAIN out["messages/chats-full.json"] :
          \E m \in Range(out["messages/chats-full.json"][c].messages) :
              m.attachments # <<>>

\* The name of the per-chat file of a chat.
MessageData(id) == "messages/message-data/" \o ToString(id) \o ".json"

\* C7 as stated: no message whose handle_id is no row of handle appears
\* under a chat of chats-full.json or in a per-chat file.
C7_Dropped ==
    MessagesDone =>
        \A db \in {SmsRead} :
            /\ \A c \in DOMAIN out["messages/chats-full.json"] :
                  \A m \in Range(out["messages/chats-full.json"][c].messages) :
                      m.handle_id \in Range(Ids(db.handles))
            /\ \A c \in DOMAIN db.chats :
                  MessageData(db.chats[c].id) \in DOMAIN out =>
                      \A m \in Range(out[MessageData(db.chats[c].id)]) :
                          m.handle_id \in Range(Ids(db.handles))

\* C7, amended: a message whose handle_id is no row of handle is kept; it
\* appears under every chat that chat_message_join joins it to, in
\* chats-full.json and in the per-chat file, without sender_uuid and
\* sender_name.
C7_Kept ==
    MessagesDone =>
        \A db \in {SmsRead} : \A full \in {out["messages/chats-full.json"]} :
            \A r \in Range(db.chat_message_join) :
                \A row \in Range(db.messages) :
                    row.id = r.message_id
                    /\ row.handle_id \notin Range(Ids(db.handles)) =>
                        /\ \E c \in DOMAIN full :
                              /\ full[c].id = r.chat_id
                              /\ \E m \in Range(full[c].messages) :
                                    /\ m.id = row.id
                                    /\ m.sender_uuid = None
                                    /\ m.sender_name = None
                        /\ MessageData(r.chat_id) \in DOMAIN out
                        /\ \E m \in Range(out[MessageData(r.chat_id)]) :
                              /\ m.id = row.id
                              /\ m.sender_uuid = None
                              /\ m.sender_name = None

\* A message whose handle_id is no row of handle has been written under a
\* chat.
C7_Witness ==
    /\ MessagesDone
    /\ \E c \in DOMAIN out["messages/chats-full.json"] :
          \E m \in Range(out["messages/chats-full.json"][c].messages) :
              m.handle_id = 0 /\ m.sender_name = None

(***************************************************************************)
(* backup_contacts and the lookup of backup_messages against address       *)
(* books of up to three people and every choice of their contact values.   *)
(***************************************************************************)
\* The most rows of ABMultiValue.
MaxValues == 2

RawContacts ==
    <<RawDashed, RawParens, RawShort, RawEmail, RawEmailDigits, RawWord,
      RawCanonical>>

PeopleLists ==
    {<<>>, <<Alice>>, <<Bob>>, <<Carol>>, <<Alice, Bob>>, <<Alice, Carol>>,
     <<Bob, Carol>>, <<Alice, Bob, Carol>>}

\* The values of ABMultiValue: a phone number, a short code, two e-mail
\* addresses and NULL.
ContactValues == {RawDashed, RawShort, RawEmail, RawEmailDigits, NoneSeq}

\* Address books: every row of ABMultiValue belongs to a row of ABPerson.
AddressBooks ==
    UNION {{[people |-> people, values |-> values] :
               values \in SeqsUpTo([person_id : Range(Ids(people)),
                                    value : ContactValues],
                                   MaxValues)} :
           people \in PeopleLists}

\* One chat whose members are handles with every raw contact string.
SmsHandles ==
    [chats |-> <<[id |-> 1, guid |-> "chat-1"]>>,
     handles |-> [i \in DOMAIN RawContacts |-> [id |-> i, contact |-> RawContacts[i]]],
     chat_handle_join |-> [i \in DOMAIN RawContacts |-> [chat_id |-> 1, handle_id |-> i]],
     messages |-> <<[id |-> 1, handle_id |-> 1]>>,
     chat_message_join |-> <<[chat_id |-> 1, message_id |-> 1]>>,
     attachments |-> <<>>,
     message_attachment_join |-> <<>>]

DirsContacts ==
    {MkDir("A", {}, <<ab>>, <<SmsHandles>>, <<>>, <<>>) : ab \in AddressBooks}

NextContacts ==
    \/ Scan(DirsContacts, 1)
    \/ backup_bgstats
    \/ backup_contacts
    \/ backup_messages
    \/ backup_photos

SpecContacts == Init /\ [][NextContacts]_vars

\* Two raw contact strings are the same string or have the same canonical
\* phone form.
SameForm(s, t) ==
    \/ s = t
    \/ \E phone \in {parse_phone_number(s)} :
          phone # NoneSeq /\ phone = parse_phone_number(t)

\* The display names of the people of an address book who hold a contact
\* value of the form of t.
Holders(ab, t) ==
    {display_name(ab.people[i]) : i \in
        {i \in DOMAIN ab.people :
            \E v \in Range(ab.values) :
                /\ v.person_id = ab.people[i].id
                /\ v.value # NoneSeq
                /\ SameForm(v.value, t)}}

\* C8 as stated: a handle whose raw contact string is, or has the canonical
\* phone form of, a contact value of a person of the address book is
\* written with the display name of such a person.
C8_RoundTrip ==
    MessagesDone =>
        \A ab \in {AddressBookRead} :
            \A h \in MembersWritten :
                Holders(ab, h.contact) # {} => h.name \in Holders(ab, h.contact)

\* The place of the last person of an address book who holds a contact
\* value stored under key.
LastHolder(ab, key) ==
    CHOOSE i \in DOMAIN ab.people :
        /\ \E v \in Range(ab.values) :
              /\ v.person_id = ab.people[i].id
              /\ v.value # NoneSeq
              /\ Classify(v.value).contact = key
        /\ \A j \in DOMAIN ab.people :
              (\E v \in Range(ab.values) :
                  /\ v.person_id = ab.people[j].id
                  /\ v.value # NoneSeq
                  /\ Classify(v.value).contact = key) => j <= i

\* C9 as stated: backup_contacts completes for every address book and the
\* table then maps the stored form of every contact value to the uuid and
\* display name of the last person who holds it.
C9_TableBuilt ==
    Ran("backup_contacts") =>
        /\ Result("backup_contacts") = "ok"
        /\ \A ab \in {AddressBookRead} :
              \A v \in Range(ab.values) :
                  v.value # NoneSeq =>
                      \E key \in {Classify(v.value).contact} :
                          /\ key \in DOMAIN CONTACTS_LOOKUP
                          /\ CONTACTS_LOOKUP[key] =
                                <<ab.people[LastHolder(ab, key)].uuid,
                                  display_name(ab.people[LastHolder(ab, key)])>>

=============================================================================
